---------------------------- MODULE Spec2Model ----------------------------
(***************************************************************************)
(* FreeBencode (src/lib/util/bencode.py): the recursive encoder bencode    *)
(* and the recursive decoder bdecode, as operators over byte sequences,    *)
(* and a state machine that calls them on bounded inputs.                  *)
(*                                                                         *)
(* A byte string is a sequence of one-character strings.  A Python value   *)
(* is a record tagged by "kind"; a dict is the sequence of its (key,       *)
(* value) pairs in the order obj.keys() yields them.  A call's outcome is  *)
(* a record with ok = TRUE and the returned data, or ok = FALSE and the    *)
(* class of the raised exception and its message.                          *)
(***************************************************************************)
EXTENDS Integers, Sequences, FiniteSets, TLC

VARIABLES pc, op, obj, out, tail, string, res

vars == <<pc, op, obj, out, tail, string, res>>

-----------------------------------------------------------------------------
(* Bytes *)

Bytes == {"i", "l", "d", "e", ":", "-", "0", "1", "a"}

DigitChars == <<"0", "1", "2", "3", "4", "5", "6", "7", "8", "9">>

isdigit(c) == \E k \in 1..10 : DigitChars[k] = c

DigitVal(c) == (CHOOSE k \in 1..10 : DigitChars[k] = c) - 1

\* The byte value of a character (ASCII), which str comparison orders by.
Ord(c) ==
  CASE c = "-" -> 45
    [] c = ":" -> 58
    [] c = "L" -> 76
    [] c = "a" -> 97
    [] c = "b" -> 98
    [] c = "d" -> 100
    [] c = "e" -> 101
    [] c = "i" -> 105
    [] c = "l" -> 108
    [] OTHER   -> 48 + DigitVal(c)

-----------------------------------------------------------------------------
(* Values and outcomes *)

TInt(n)   == [kind |-> "int", n |-> n]
TBool(b)  == [kind |-> "bool", b |-> b]
TStr(s)   == [kind |-> "str", s |-> s]
TList(xs) == [kind |-> "list", xs |-> xs]
TDict(kv) == [kind |-> "dict", items |-> kv]
TNone     == [kind |-> "none"]

Raise(exc, msg) == [ok |-> FALSE, exc |-> exc, msg |-> msg]

BencodeError(msg) == Raise("BencodeError", <<msg>>)

Encoded(bytes) == [ok |-> TRUE, bytes |-> bytes]

Decoded(value, rest) == [ok |-> TRUE, value |-> value, rest |-> rest]

\* isinstance(obj, tuple(int_types)) and the three others.
int_types  == {"int", "bool"}
str_types  == {"str"}
list_types == {"list"}
dict_types == {"dict"}

-----------------------------------------------------------------------------
(* Builtins the codec calls *)

\* str.partition(sep): the part before the first sep, sep, the part after;
\* the whole string and two empty strings when sep does not occur.
FirstIndex(s, c) ==
  IF \E i \in 1..Len(s) : s[i] = c
  THEN CHOOSE i \in 1..Len(s) : s[i] = c /\ \A j \in 1..(i - 1) : s[j] # c
  ELSE 0

partition(s, c) ==
  LET k == FirstIndex(s, c)
  IN IF k = 0 THEN <<s, <<>>, <<>>>>
     ELSE <<SubSeq(s, 1, k - 1), <<c>>, SubSeq(s, k + 1, Len(s))>>

\* "{0:d}".format(n): decimal digits, a leading "-" when negative.
RECURSIVE format_d(_)
format_d(n) ==
  IF n < 0 THEN <<"-">> \o format_d(0 - n)
  ELSE IF n < 10 THEN <<DigitChars[n + 1]>>
  ELSE format_d(n \div 10) \o <<DigitChars[(n % 10) + 1]>>

RECURSIVE DigitsValue(_)
DigitsValue(s) ==
  IF s = <<>> THEN 0
  ELSE 10 * DigitsValue(SubSeq(s, 1, Len(s) - 1)) + DigitVal(s[Len(s)])

AllDigits(s) == s # <<>> /\ \A i \in 1..Len(s) : isdigit(s[i])

\* int(s), base 10: an optional sign and one or more digits (whitespace, "+"
\* and overflow are outside Bytes).  ok = FALSE stands for ValueError.
int(s) ==
  LET neg  == s # <<>> /\ s[1] = "-"
      body == IF neg THEN Tail(s) ELSE s
  IN IF AllDigits(body)
     THEN [ok |-> TRUE, n |-> IF neg THEN 0 - DigitsValue(body) ELSE DigitsValue(body)]
     ELSE [ok |-> FALSE, n |-> 0]

\* long(s), base 10: as int(s), and one trailing "L" or "l" is accepted.
long(s) ==
  LET stem == IF s # <<>> /\ s[Len(s)] \in {"l", "L"}
              THEN SubSeq(s, 1, Len(s) - 1) ELSE s
  IN int(stem)

\* str(k) of a dict key: a str is itself, an integer its decimal digits.
str(k) == IF k.kind = "str" THEN k.s ELSE format_d(k.n)

\* s < t for two str objects: lexicographic by byte value.
RECURSIVE BytesLess(_, _)
BytesLess(s, t) ==
  IF t = <<>> THEN FALSE
  ELSE IF s = <<>> THEN TRUE
  ELSE IF s[1] # t[1] THEN Ord(s[1]) < Ord(t[1])
  ELSE BytesLess(Tail(s), Tail(t))

\* keys.sort(): ascending, equal keys kept.
RECURSIVE Insert(_, _)
Insert(k, sorted) ==
  IF sorted = <<>> THEN <<k>>
  ELSE IF BytesLess(k, sorted[1]) THEN <<k>> \o sorted
  ELSE <<sorted[1]>> \o Insert(k, Tail(sorted))

RECURSIVE sort(_)
sort(keys) == IF keys = <<>> THEN <<>> ELSE Insert(keys[1], sort(Tail(keys)))

\* Python's == on two keys: integers by value, strs by bytes, never across.
KeyEq(a, b) ==
  \/ a.kind = "str" /\ b.kind = "str" /\ a.s = b.s
  \/ a.kind = "int" /\ b.kind = "int" /\ a.n = b.n

\* obj[k]: the value held for a key equal to k; ok = FALSE stands for KeyError.
getitem(items, k) ==
  IF \E i \in 1..Len(items) : KeyEq(items[i][1], k)
  THEN [ok |-> TRUE,
        value |-> items[CHOOSE i \in 1..Len(items) : KeyEq(items[i][1], k)][2]]
  ELSE [ok |-> FALSE, value |-> TNone]

\* result[k] = v: replaces the value of an equal key, else adds the pair.
setitem(items, k, v) ==
  IF \E i \in 1..Len(items) : KeyEq(items[i][1], k)
  THEN [i \in 1..Len(items) |->
          IF KeyEq(items[i][1], k) THEN <<items[i][1], v>> ELSE items[i]]
  ELSE Append(items, <<k, v>>)

-----------------------------------------------------------------------------
(* Encoder *)

\* long(obj) of an integer object: a bool is 1 or 0.
ToLong(o) == IF o.kind = "bool" THEN (IF o.b THEN 1 ELSE 0) ELSE o.n

bencode_int(o) == Encoded(<<"i">> \o format_d(ToLong(o)) \o <<"e">>)

bencode_str(o) == Encoded(format_d(Len(o.s)) \o <<":">> \o o.s)

RECURSIVE bencode(_), bencode_list_join(_), bencode_dict_join(_, _)

\* "".join(bencode(x) for x in obj): the first exception ends the join.
bencode_list_join(xs) ==
  IF xs = <<>> THEN Encoded(<<>>)
  ELSE LET head == bencode(xs[1])
       IN IF ~head.ok THEN head
          ELSE LET rest == bencode_list_join(Tail(xs))
               IN IF ~rest.ok THEN rest
                  ELSE Encoded(head.bytes \o rest.bytes)

bencode_list(o) ==
  LET body == bencode_list_join(o.xs)
  IN IF ~body.ok THEN body
     ELSE Encoded(<<"l">> \o body.bytes \o <<"e">>)

\* "".join(bencode_str(k) + bencode(obj[k]) for k in keys): obj is indexed by
\* the str k, not by the key k was made from.
bencode_dict_join(items, keys) ==
  IF keys = <<>> THEN Encoded(<<>>)
  ELSE LET k    == keys[1]
           held == getitem(items, TStr(k))
       IN IF ~held.ok THEN Raise("KeyError", k)
          ELSE LET val == bencode(held.value)
               IN IF ~val.ok THEN val
                  ELSE LET rest == bencode_dict_join(items, Tail(keys))
                       IN IF ~rest.ok THEN rest
                          ELSE Encoded(bencode_str(TStr(k)).bytes
                                         \o val.bytes \o rest.bytes)

\* The keys without keys.sort().
SortedKeys_unsorted(items) == [i \in 1..Len(items) |-> str(items[i][1])]

\* keys = [str(k) for k in obj.keys()]; keys.sort()
SortedKeys(items) == sort([i \in 1..Len(items) |-> str(items[i][1])])

bencode_dict(o) ==
  LET body == bencode_dict_join(o.items, SortedKeys(o.items))
  IN IF ~body.ok THEN body
     ELSE Encoded(<<"d">> \o body.bytes \o <<"e">>)

bencode(o) ==
  IF o.kind \in int_types THEN bencode_int(o)
  ELSE IF o.kind \in str_types THEN bencode_str(o)
  ELSE IF o.kind \in list_types THEN bencode_list(o)
  ELSE IF o.kind \in dict_types THEN bencode_dict(o)
  ELSE BencodeError("Cannot bencode object: unrecognized type.")

-----------------------------------------------------------------------------
(* Decoder *)

\* bdecode_int splitting at the last "e" (rpartition) instead of the first.
LastIndex(s, c) ==
  IF \E i \in 1..Len(s) : s[i] = c
  THEN CHOOSE i \in 1..Len(s) : s[i] = c /\ \A j \in (i + 1)..Len(s) : s[j] # c
  ELSE 0

bdecode_int_rpartition(s) ==
  IF Len(s) <= 2 \/ s[1] # "i"
  THEN BencodeError("Invalid bencoded int: string does not start with i.")
  ELSE LET k     == LastIndex(s, "e")
           parts == IF k = 0 THEN <<s, <<>>, <<>>>>
                    ELSE <<SubSeq(s, 1, k - 1), <<"e">>, SubSeq(s, k + 1, Len(s))>>
       IN IF parts[3] = <<>>
          THEN BencodeError("Invalid bencoded int: string does not terminate.")
          ELSE LET n == long(Tail(parts[1]))
               IN IF ~n.ok THEN Raise("ValueError", <<"invalid literal for long()">>)
                  ELSE Decoded(TInt(n.n), parts[3])

bdecode_int(s) ==
  IF Len(s) <= 2 \/ s[1] # "i"
  THEN BencodeError("Invalid bencoded int: string does not start with i.")
  ELSE LET parts == partition(s, "e")
       IN IF parts[3] = <<>>
          THEN BencodeError("Invalid bencoded int: string does not terminate.")
          ELSE LET n == long(Tail(parts[1]))
               IN IF ~n.ok THEN Raise("ValueError", <<"invalid literal for long()">>)
                  ELSE Decoded(TInt(n.n), parts[3])

\* bdecode_str returning its pair the wrong way round.
bdecode_str_swapped(s) ==
  LET parts == partition(s, ":")
  IN IF parts[3] = <<>>
     THEN BencodeError("Invalid bencoded string: string does not contain ':'.")
     ELSE LET length == int(parts[1])
          IN IF ~length.ok
             THEN BencodeError("Invalid bencoded string: string length not an integer.")
             ELSE IF length.n < 0
             THEN BencodeError("Invalid bencoded string: negative length.")
             ELSE IF Len(parts[3]) < length.n
             THEN BencodeError("Invalid bencoded string: Too long length.")
             ELSE Decoded(TStr(SubSeq(parts[3], length.n + 1, Len(parts[3]))),
                          SubSeq(parts[3], 1, length.n))

bdecode_str(s) ==
  LET parts == partition(s, ":")
  IN IF parts[3] = <<>>
     THEN BencodeError("Invalid bencoded string: string does not contain ':'.")
     ELSE LET length == int(parts[1])
          IN IF ~length.ok
             THEN BencodeError("Invalid bencoded string: string length not an integer.")
             ELSE IF length.n < 0
             THEN BencodeError("Invalid bencoded string: negative length.")
             ELSE IF Len(parts[3]) < length.n
             THEN BencodeError("Invalid bencoded string: Too long length.")
             ELSE Decoded(TStr(SubSeq(parts[3], 1, length.n)),
                          SubSeq(parts[3], length.n + 1, Len(parts[3])))

RECURSIVE bdecode(_), bdecode_list_while(_, _)

\* The while loop of bdecode_list and what follows it.
bdecode_list_while(leftovers, result) ==
  IF leftovers # <<>> /\ leftovers[1] # "e"
  THEN LET r == bdecode(leftovers)
       IN IF ~r.ok THEN r
          ELSE bdecode_list_while(r.rest, Append(result, r.value))
  ELSE IF leftovers = <<>>
  THEN BencodeError("Invalid bencoded list: did not terminate with 'e'.")
  ELSE Decoded(TList(result), Tail(leftovers))

bdecode_list(s) ==
  IF s = <<>> THEN Raise("IndexError", <<"string index out of range">>)
  ELSE IF s[1] # "l"
  THEN BencodeError("Invalid bencoded list: string does not start with 'l'.")
  ELSE bdecode_list_while(Tail(s), <<>>)

\* for i in range(0, len(items), 2): result[items[i]] = items[i+1]
\* A list or a dict is unhashable: storing under it raises TypeError.
RECURSIVE bdecode_dict_fill(_, _, _)
bdecode_dict_fill(items, i, result) ==
  IF i > Len(items) THEN [ok |-> TRUE, items |-> result]
  ELSE IF items[i].kind \in {"list", "dict"}
  THEN Raise("TypeError", <<"unhashable type", items[i].kind>>)
  ELSE bdecode_dict_fill(items, i + 2, setitem(result, items[i], items[i + 1]))

bdecode_dict(s) ==
  IF s = <<>> THEN Raise("IndexError", <<"string index out of range">>)
  ELSE IF s[1] # "d"
  THEN BencodeError("Invalid bencoded dict: string does not start with 'd'.")
  ELSE LET r == bdecode_list(<<"l">> \o Tail(s))
       IN IF ~r.ok
          THEN IF r.exc = "BencodeError"
               THEN Raise("BencodeError",
                          <<"Error while decoding dict items as list:">> \o r.msg)
               ELSE r
          ELSE IF Len(r.value.xs) % 2 # 0
          THEN BencodeError("Invalid bencoded dict: odd number of items.")
          ELSE LET filled == bdecode_dict_fill(r.value.xs, 1, <<>>)
               IN IF ~filled.ok THEN filled
                  ELSE Decoded(TDict(filled.items), r.rest)

\* bdecode taking a sign, too, for the start of a byte string's length.
bdecode_sign_as_digit(s) ==
  IF Len(s) = 0 THEN BencodeError("Invalid bencoded object: empty.")
  ELSE LET char == s[1]
       IN IF char = "i" THEN bdecode_int(s)
          ELSE IF char = "l" THEN bdecode_list(s)
          ELSE IF char = "d" THEN bdecode_dict(s)
          ELSE IF isdigit(char) \/ char = "-" THEN bdecode_str(s)
          ELSE BencodeError("Invalid bencoded object: no type indicator.")

bdecode(s) ==
  IF Len(s) = 0 THEN BencodeError("Invalid bencoded object: empty.")
  ELSE LET char == s[1]
       IN IF char = "i" THEN bdecode_int(s)
          ELSE IF char = "l" THEN bdecode_list(s)
          ELSE IF char = "d" THEN bdecode_dict(s)
          ELSE IF isdigit(char) THEN bdecode_str(s)
          ELSE BencodeError("Invalid bencoded object: no type indicator.")

-----------------------------------------------------------------------------
(* Inputs *)

\* The objects given to bencode are integers, a bool, byte strings, None,
\* and lists and dicts of them two levels deep; dict keys are byte strings
\* or an integer.  Tuples, unicode and buffer objects, and keys of other
\* types are not among them.  The buffers given to the decoders are over
\* Bytes, so whitespace, "+" and NUL never reach int() or long().

MaxStrLen == 1
MaxTail   == 1
MaxChunks == 4

\* Every sequence over S of length at most n.
RECURSIVE SeqsUpTo(_, _)
SeqsUpTo(S, n) ==
  IF n = 0 THEN {<<>>}
  ELSE LET P == SeqsUpTo(S, n - 1)
       IN P \cup {Append(p, x) : p \in P, x \in S}

\* Every concatenation of at most n members of C.
RECURSIVE Concats(_, _)
Concats(C, n) ==
  IF n = 0 THEN {<<>>}
  ELSE LET P == Concats(C, n - 1)
       IN P \cup {p \o c : p \in P, c \in C}

StrBytes == {"a", "e", ":"}

IntObjs == {TInt(0 - 1), TInt(0), TInt(10), TBool(TRUE)}

StrObjs == {TStr(s) : s \in SeqsUpTo(StrBytes, MaxStrLen)}

\* The values of the integer and byte-string kinds, and None, which is of
\* no kind.
Atoms == IntObjs \cup StrObjs

Leaves == Atoms \cup {TNone}

\* Dict keys: byte strings, and an integer that str() has to coerce.
KeyObjs == {TStr(<<>>), TStr(<<"a">>), TStr(<<"1">>), TInt(1)}

ListObjs(E) == {TList(xs) : xs \in SeqsUpTo(E, 2)}

\* Dicts of at most two entries, in both orders of holding them.
DictObjs(E) ==
  {TDict(<<>>)}
    \cup {TDict(<<<<k, v>>>>) : k \in KeyObjs, v \in E}
    \cup {TDict(<<<<k[1], v[1]>>, <<k[2], v[2]>>>>) :
            k \in {kk \in KeyObjs \X KeyObjs : kk[1] # kk[2]}, v \in E \X E}

Containers == ListObjs(Leaves) \cup DictObjs(Leaves)

Nested ==
  {TList(<<c>>) : c \in Containers}
    \cup {TList(<<TInt(0), c>>) : c \in Containers}
    \cup {TDict(<<<<TStr(<<"a">>), c>>>>) : c \in Containers}
    \cup {TDict(<<<<TStr(<<"a">>), c>>, <<TStr(<<>>), TInt(0)>>>>) : c \in Containers}

Objects == Leaves \cup Containers \cup Nested

Tails == SeqsUpTo({"e", ":", "1", "a"}, MaxTail)

\* Buffers handed to the decoder: bytes, and four encodings, chained.
Chunks ==
  {<<b>> : b \in Bytes}
    \cup {<<"i", "1", "e">>, <<"0", ":">>, <<"1", ":", "a">>, <<"l", "e">>}

Buffers == Concats(Chunks, MaxChunks)

-----------------------------------------------------------------------------
(* Calls *)

NoOutcome == Raise("none", <<>>)

Init ==
  /\ pc = "idle"
  /\ op = "none"
  /\ obj = TNone
  /\ out = NoOutcome
  /\ tail = <<>>
  /\ string = <<>>
  /\ res = NoOutcome

\* out = bencode(v)
Bencode ==
  /\ pc = "idle"
  /\ \E v \in Objects :
     /\ pc' = "encoded"
     /\ op' = "bencode"
     /\ obj' = v
     /\ out' = bencode(v)
     /\ UNCHANGED <<tail, string, res>>

\* res = bdecode(out + t), for the bytes a bencode call returned
BdecodeEncoded ==
  /\ pc = "encoded"
  /\ out.ok
  /\ \E t \in Tails :
     /\ pc' = "decoded"
     /\ op' = "bdecode"
     /\ tail' = t
     /\ string' = out.bytes \o t
     /\ res' = bdecode(out.bytes \o t)
     /\ UNCHANGED <<obj, out>>

\* res = bdecode(b) and the four parsers, each called on its own
Bdecode ==
  /\ pc = "idle"
  /\ \E b \in Buffers :
     /\ pc' = "decoded"
     /\ op' = "bdecode"
     /\ string' = b
     /\ res' = bdecode(b)
     /\ UNCHANGED <<obj, out, tail>>

BdecodeInt ==
  /\ pc = "idle"
  /\ \E b \in Buffers :
     /\ pc' = "decoded"
     /\ op' = "bdecode_int"
     /\ string' = b
     /\ res' = bdecode_int(b)
     /\ UNCHANGED <<obj, out, tail>>

BdecodeStr ==
  /\ pc = "idle"
  /\ \E b \in Buffers :
     /\ pc' = "decoded"
     /\ op' = "bdecode_str"
     /\ string' = b
     /\ res' = bdecode_str(b)
     /\ UNCHANGED <<obj, out, tail>>

BdecodeList ==
  /\ pc = "idle"
  /\ \E b \in Buffers :
     /\ pc' = "decoded"
     /\ op' = "bdecode_list"
     /\ string' = b
     /\ res' = bdecode_list(b)
     /\ UNCHANGED <<obj, out, tail>>

BdecodeDict ==
  /\ pc = "idle"
  /\ \E b \in Buffers :
     /\ pc' = "decoded"
     /\ op' = "bdecode_dict"
     /\ string' = b
     /\ res' = bdecode_dict(b)
     /\ UNCHANGED <<obj, out, tail>>

Next ==
  \/ Bencode
  \/ BdecodeEncoded
  \/ Bdecode
  \/ BdecodeInt
  \/ BdecodeStr
  \/ BdecodeList
  \/ BdecodeDict

Spec == Init /\ [][Next]_vars

-----------------------------------------------------------------------------
(* Vocabulary of the properties *)

\* v is built from the four kinds: integers, byte strings, lists, and
\* dictionaries whose keys are byte strings.
RECURSIVE IsValue(_)
IsValue(v) ==
  CASE v.kind \in {"int", "bool", "str"} -> TRUE
    [] v.kind = "list" -> \A i \in 1..Len(v.xs) : IsValue(v.xs[i])
    [] v.kind = "dict" ->
         \A i \in 1..Len(v.items) :
           v.items[i][1].kind = "str" /\ IsValue(v.items[i][2])
    [] OTHER -> FALSE

\* Python's == on two values: an integer equals a bool of the same number,
\* lists are equal elementwise, dicts when they hold equal values under
\* equal keys, whatever the order.
RECURSIVE StructEq(_, _)
StructEq(a, b) ==
  CASE a.kind \in {"int", "bool"} ->
         b.kind \in {"int", "bool"} /\ ToLong(a) = ToLong(b)
    [] a.kind = "str" -> b.kind = "str" /\ a.s = b.s
    [] a.kind = "list" ->
         /\ b.kind = "list"
         /\ Len(a.xs) = Len(b.xs)
         /\ \A i \in 1..Len(a.xs) : StructEq(a.xs[i], b.xs[i])
    [] a.kind = "dict" ->
         /\ b.kind = "dict"
         /\ Len(a.items) = Len(b.items)
         /\ \A i \in 1..Len(a.items) :
              LET held == getitem(b.items, a.items[i][1])
              IN held.ok /\ StructEq(a.items[i][2], held.value)
    [] OTHER -> b.kind = a.kind

\* v with every dict in it, at every depth, holding its entries in the
\* opposite order.
RECURSIVE ReverseDeep(_)
ReverseDeep(v) ==
  CASE v.kind = "list" ->
         TList([i \in 1..Len(v.xs) |-> ReverseDeep(v.xs[i])])
    [] v.kind = "dict" ->
         TDict([i \in 1..Len(v.items) |->
                  LET e == v.items[Len(v.items) + 1 - i]
                  IN <<e[1], ReverseDeep(e[2])>>])
    [] OTHER -> v

\* No two keys of a dict in v have the same str() form.
RECURSIVE DistinctCoercedKeys(_)
DistinctCoercedKeys(v) ==
  CASE v.kind = "list" -> \A i \in 1..Len(v.xs) : DistinctCoercedKeys(v.xs[i])
    [] v.kind = "dict" ->
         /\ \A i, j \in 1..Len(v.items) :
              i # j => str(v.items[i][1]) # str(v.items[j][1])
         /\ \A i \in 1..Len(v.items) : DistinctCoercedKeys(v.items[i][2])
    [] OTHER -> TRUE

\* Some value in v, at any depth, is of none of the four kinds.
RECURSIVE HasUnrecognized(_)
HasUnrecognized(v) ==
  CASE v.kind \in {"int", "bool", "str"} -> FALSE
    [] v.kind = "list" -> \E i \in 1..Len(v.xs) : HasUnrecognized(v.xs[i])
    [] v.kind = "dict" ->
         \E i \in 1..Len(v.items) : HasUnrecognized(v.items[i][2])
    [] OTHER -> TRUE

\* dec, decoded from the bytes written for v, has every dict's entries in the
\* order of the wire: as many as v holds, their keys strictly ascending.
RECURSIVE WireAscending(_, _)
WireAscending(v, dec) ==
  CASE v.kind = "list" ->
         /\ dec.kind = "list"
         /\ Len(dec.xs) = Len(v.xs)
         /\ \A i \in 1..Len(v.xs) : WireAscending(v.xs[i], dec.xs[i])
    [] v.kind = "dict" ->
         /\ dec.kind = "dict"
         /\ Len(dec.items) = Len(v.items)
         /\ \A i \in 1..Len(dec.items) : dec.items[i][1].kind = "str"
         /\ \A i \in 1..(Len(dec.items) - 1) :
              BytesLess(dec.items[i][1].s, dec.items[i + 1][1].s)
         /\ \A i \in 1..Len(v.items) :
              LET held == getitem(dec.items, TStr(str(v.items[i][1])))
              IN held.ok /\ WireAscending(v.items[i][2], held.value)
    [] OTHER -> TRUE

\* r is a proper suffix of s.
IsProperSuffix(r, s) ==
  Len(r) < Len(s) /\ r = SubSeq(s, Len(s) - Len(r) + 1, Len(s))

\* The bdecode call decoded what the bencode call returned, plus tail.
AfterRoundTrip == pc = "decoded" /\ op = "bdecode" /\ out.ok

-----------------------------------------------------------------------------
(* Properties *)

\* C1: round trip.  For every value v of the four kinds, a bare integer and
\* an empty byte string at the top level included, bdecode(bencode(v))
\* succeeds and returns a value equal to v and an empty remainder.
C1_RoundTrip ==
  (AfterRoundTrip /\ tail = <<>> /\ IsValue(obj))
    => (res.ok /\ StructEq(obj, res.value) /\ res.rest = <<>>)

\* C2: remainder.  For every value v of the four kinds and every non-empty
\* run t of trailing bytes, bdecode(bencode(v) + t) succeeds and returns a
\* value equal to v and exactly t as the remainder.
C2_Remainder ==
  (AfterRoundTrip /\ tail # <<>> /\ IsValue(obj))
    => (res.ok /\ StructEq(obj, res.value) /\ res.rest = tail)

C2_Witness ==
  /\ AfterRoundTrip
  /\ tail = <<"e">>
  /\ obj.kind = "dict" /\ Len(obj.items) = 2
  /\ obj.items[2][2] = TStr(<<":">>)
  /\ IsValue(obj)
  /\ res.ok /\ res.rest = <<"e">>

\* C3: canonical key order.  A dictionary's keys are written in strictly
\* ascending raw-byte order, at every nesting level, whatever the order the
\* dictionary holds them in: the same entries held in the opposite order
\* give the same outcome, and every value of the four kinds is encoded.
C3_CanonicalKeyOrder ==
  pc = "encoded" =>
    /\ out = bencode(ReverseDeep(obj))
    /\ IsValue(obj) => out.ok
    /\ (out.ok /\ obj.kind \in {"list", "dict"} /\ DistinctCoercedKeys(obj))
         => LET r == bdecode(out.bytes)
            IN r.ok /\ WireAscending(obj, r.value)

C3_Witness ==
  /\ pc = "encoded"
  /\ out.ok
  /\ obj.kind = "dict" /\ Len(obj.items) = 1
  /\ obj.items[1][2].kind = "dict" /\ Len(obj.items[1][2].items) = 2
  /\ BytesLess(str(obj.items[1][2].items[2][1]), str(obj.items[1][2].items[1][1]))
  /\ DistinctCoercedKeys(obj)

\* The text between the leading "i" and the first "e", less one leading
\* "-", does not start with a digit: the digit run is empty.
DigitRunEmpty(s) ==
  LET text == Tail(partition(s, "e")[1])
      body == IF text # <<>> /\ text[1] = "-" THEN Tail(text) ELSE text
  IN body = <<>> \/ ~isdigit(body[1])

\* C4: integer decode errors.  For every buffer starting with "i" that has
\* no terminating "e", or whose digit run is empty, bdecode fails with the
\* codec's own error, BencodeError, and with no other exception.
C4_IntegerDecodeErrors ==
  (/\ pc = "decoded" /\ op = "bdecode"
   /\ string # <<>> /\ string[1] = "i"
   /\ (FirstIndex(string, "e") = 0 \/ DigitRunEmpty(string)))
    => (~res.ok /\ res.exc = "BencodeError")

\* C5: dictionary key kind.  When the entries of a dictionary decode, an
\* even number of them, and one in a key position is not a byte string,
\* bdecode fails with the codec's own error, BencodeError, and no other
\* exception; no mapping with a key that is not a byte string is returned.
C5_DictKeyKind ==
  (pc = "decoded" /\ op = "bdecode" /\ string # <<>> /\ string[1] = "d")
    => /\ res.ok =>
            \A i \in 1..Len(res.value.items) : res.value.items[i][1].kind = "str"
       /\ LET entries == bdecode_list(<<"l">> \o Tail(string))
          IN (/\ entries.ok
              /\ Len(entries.value.xs) % 2 = 0
              /\ \E i \in 1..Len(entries.value.xs) :
                   i % 2 = 1 /\ entries.value.xs[i].kind # "str")
               => (~res.ok /\ res.exc = "BencodeError")

IntMessages ==
  {"Invalid bencoded int: string does not start with i.",
   "Invalid bencoded int: string does not terminate."}

StrMessages ==
  {"Invalid bencoded string: string does not contain ':'.",
   "Invalid bencoded string: string length not an integer.",
   "Invalid bencoded string: negative length.",
   "Invalid bencoded string: Too long length."}

\* C6: top-level dispatch.  bdecode picks the parser from the first byte
\* alone: "i" gives an integer or an integer parser's failure, "l" a list,
\* "d" a dictionary, a digit a byte string or a string parser's failure; an
\* empty buffer fails as empty, and any other first byte as lacking a type
\* indicator, neither returning a value.
C6_Dispatch ==
  (pc = "decoded" /\ op = "bdecode") =>
    IF string = <<>>
    THEN res = BencodeError("Invalid bencoded object: empty.")
    ELSE CASE string[1] = "i" ->
                /\ res.ok => res.value.kind = "int"
                /\ ~res.ok => (res.exc = "ValueError" \/ res.msg[1] \in IntMessages)
           [] string[1] = "l" -> res.ok => res.value.kind = "list"
           [] string[1] = "d" -> res.ok => res.value.kind = "dict"
           [] isdigit(string[1]) ->
                /\ res.ok => res.value.kind = "str"
                /\ ~res.ok => res.msg[1] \in StrMessages
           [] OTHER ->
                res = BencodeError("Invalid bencoded object: no type indicator.")

C6_Witness ==
  /\ pc = "decoded" /\ op = "bdecode"
  /\ string = <<"-", "0", ":", "a">>
  /\ ~res.ok

\* C7: the length of a byte string is authoritative.  For a buffer
\* <decimal n> ":" <rest>: when rest has fewer than n bytes bdecode fails
\* as truncated; otherwise the value is the first n bytes of rest and the
\* remainder the bytes after them, for every n >= 0.
C7_StringLength ==
  LET parts == partition(string, ":")
      n     == DigitsValue(parts[1])
  IN (/\ pc = "decoded" /\ op = "bdecode"
      /\ parts[2] # <<>> /\ AllDigits(parts[1]))
       => IF Len(parts[3]) < n
          THEN res = BencodeError("Invalid bencoded string: Too long length.")
          ELSE res = Decoded(TStr(SubSeq(parts[3], 1, n)),
                             SubSeq(parts[3], n + 1, Len(parts[3])))

\* C8: unrecognized type on encode.  When the value given to bencode, or a
\* value at any depth inside it, is of none of the four kinds, the call fails
\* with BencodeError (unrecognized type) and returns no bytes.
C8_UnrecognizedType ==
  (pc = "encoded" /\ HasUnrecognized(obj))
    => out = BencodeError("Cannot bencode object: unrecognized type.")

\* C9: dictionary encode with key coercion.  For every dictionary, integer
\* keys included, whose values are of the four kinds and whose keys stay
\* distinct when coerced, the call succeeds and writes each entry's value
\* after the byte-string form of its key.
C9_KeyCoercion ==
  (/\ pc = "encoded"
   /\ obj.kind = "dict"
   /\ DistinctCoercedKeys(obj)
   /\ \A i \in 1..Len(obj.items) : IsValue(obj.items[i][2]))
    => /\ out.ok
       /\ LET r == bdecode(out.bytes)
          IN /\ r.ok
             /\ Len(r.value.items) = Len(obj.items)
             /\ \A i \in 1..Len(obj.items) :
                  LET held == getitem(r.value.items, TStr(str(obj.items[i][1])))
                  IN held.ok /\ StructEq(obj.items[i][2], held.value)

Exceptions == {"BencodeError", "ValueError", "TypeError", "IndexError"}

\* C10: progress and termination.  Every call of bdecode, bdecode_int,
\* bdecode_str, bdecode_list and bdecode_dict ends, with a value or with an
\* exception; when it succeeds its remainder is a proper suffix of its
\* input, so each turn of the list loop leaves less than it was given.
C10_Progress ==
  pc = "decoded" =>
    /\ res.ok => IsProperSuffix(res.rest, string)
    /\ ~res.ok => res.exc \in Exceptions

C10_Witness ==
  /\ pc = "decoded" /\ op = "bdecode_list"
  /\ res.ok
  /\ Len(res.value.xs) = 1
  /\ res.value.xs[1].kind = "list"
  /\ res.rest # <<>>

=============================================================================
